---- MODULE Spec2Model ----
(***************************************************************************)
(* A model of dxpy's app builder (src/python/dxpy/app_builder.py) and of   *)
(* the org membership commands (src/python/dxpy/cli/org.py).               *)
(*                                                                         *)
(* One behaviour is one invocation of one operation.  The initial state    *)
(* fixes the operation, its arguments, the local manifest and the state of *)
(* the remote platform; every action is one remote call (or one local      *)
(* step that can fail) together with all the local code that follows it up *)
(* to the next call.  `log` is the sequence of remote calls issued so far, *)
(* with their answers; `outcome` is how the invocation ended.              *)
(***************************************************************************)
EXTENDS Integers, Sequences, FiniteSets, TLC

VARIABLES
    op,        \* the operation invoked
    pc,        \* the position of the invocation in its code
    args,      \* the arguments and the local manifest (dxapp.json, src_dir)
    apps,      \* remote: version alias -> "absent" | "unpublished" | "published"
    applets,   \* remote: ids of the applets that carry the manifest's name
    member,    \* remote: whether the user is a member of the org
    log,       \* the remote calls issued so far, each with its answer
    loc,       \* the local variables of the invocation
    outcome,   \* "running", or what the invocation returned or raised
    faulted    \* whether some remote call failed for a reason the remote
               \* state does not explain (network, permissions, ...)

vars == <<op, pc, args, apps, applets, member, log, loc, outcome, faulted>>

(***************************************************************************)
(* Bounds of the model.                                                    *)
(***************************************************************************)
MaxCandidates == 2      \* longest try_versions list
MaxApplets == 2         \* most applets that already carry the name
MaxDeps == 2            \* longest execDepends list of the manifest

Versions == {"v1", "v2"}
AppIds == {"app-A", "app-B"}
AppStates == {"absent", "unpublished", "published"}

SeqsUpTo(S, n) == UNION {[1..k -> S] : k \in 0..n}

(***************************************************************************)
(* Remote API errors (dxpy.exceptions.DXAPIError): a name and a message.   *)
(***************************************************************************)
AliasMsg == "Specified name and version conflict with an existing alias"
ErrNames == {"InvalidInput", "InvalidState", "ResourceNotFound", "PermissionDenied"}
ErrMsgs == {AliasMsg, "other"}
DXAPIError == [name : ErrNames, msg : ErrMsgs]
NoErr == [name |-> "none", msg |-> "none"]
AliasCollision == [name |-> "InvalidInput", msg |-> AliasMsg]
NotFound == [name |-> "ResourceNotFound", msg |-> "other"]
InvalidState == [name |-> "InvalidState", msg |-> "other"]
\* A failure below the API (connection lost, ...): raised by the transport,
\* it is no DXAPIError and no `except DXAPIError` clause catches it.
TransportErr == [name |-> "TransportError", msg |-> "other"]

\* The answer of a remote call: a value, or a raised error.
Ok(v) == [ok |-> TRUE, val |-> v, err |-> NoErr]
Err(e) == [ok |-> FALSE, val |-> "none", err |-> e]

\* One entry of the call log.
Call(c, i, a, r) == [call |-> c, idx |-> i, arg |-> a, resp |-> r]

\* How an invocation ends.
Running == [kind |-> "running", exc |-> "none", val |-> "none", err |-> NoErr, msg |-> <<>>]
Returned(v) == [kind |-> "returned", exc |-> "none", val |-> v, err |-> NoErr, msg |-> <<>>]
RaisedErr(e) ==
    [kind |-> "raised", exc |-> IF e \in DXAPIError THEN "DXAPIError" ELSE "TransportError",
     val |-> "none", err |-> e, msg |-> <<>>]
Raised(x, m) == [kind |-> "raised", exc |-> x, val |-> "none", err |-> NoErr, msg |-> m]

(***************************************************************************)
(* create_app: the app version publisher.                                  *)
(***************************************************************************)

\* What appDescribe returns for a version: a record with or without the
\* "published" field; `exists` is FALSE for Python's None.
NoneDesc == [exists |-> FALSE, has |-> FALSE, published |-> 0]
DescribeOf(st) ==
    IF st = "published"
    THEN {[exists |-> TRUE, has |-> TRUE, published |-> 1]}
    ELSE {[exists |-> TRUE, has |-> FALSE, published |-> 0],
          [exists |-> TRUE, has |-> TRUE, published |-> 0]}

\* app_describe.get("published", 0)
GetPublished(d) == IF d.has THEN d.published ELSE 0

\* The answers the platform can give to appDescribe(alias = v).
AppDescribeAnswers(v) ==
    IF apps[v] = "absent" THEN {Err(NotFound)}
    ELSE {Ok(d) : d \in DescribeOf(apps[v])}
AppDescribeFaults ==
    {Err(e) : e \in {x \in DXAPIError : x.name # "ResourceNotFound"} \cup {TransportErr}}

\* The answers the platform can give to appNew for version v.
AppNewAnswers(v) ==
    IF apps[v] = "absent" THEN {Ok(i) : i \in AppIds}
    ELSE {Err(AliasCollision)}
AppNewFaults == {Err(e) : e \in (DXAPIError \ {AliasCollision}) \cup {TransportErr}}

\* The answers the platform can give to appUpdate for version v.
AppUpdateAnswers(v) ==
    CASE apps[v] = "unpublished" -> {Ok(i) : i \in AppIds}
      [] apps[v] = "published" -> {Err(InvalidState)}
      [] OTHER -> {Err(NotFound)}
AppUpdateFaults ==
    {Err(e) : e \in {x \in DXAPIError : x.name # "InvalidState"} \cup {TransportErr}}

\* Any other call: it succeeds, or fails with some API error.
GenericFaults == {Err([name |-> "PermissionDenied", msg |-> "other"]),
                  Err(TransportErr)}

RECURSIVE Join(_, _)
\* ', '.join(try_versions), as the sequence of the pieces it concatenates.
Join(s, sep) ==
    IF Len(s) = 0 THEN <<>>
    ELSE IF Len(s) = 1 THEN <<s[1]>>
    ELSE <<s[1], sep>> \o Join(Tail(s), sep)

\* The message of the EnvironmentError of lines 325-329.
ExhaustionMessage(tv) ==
    <<"Could not create ">> \o
    (IF Len(tv) # 1
     THEN <<"any of the requested versions: ">> \o Join(tv, ", ")
     ELSE <<"the requested version: ", tv[1]>>)

\* `continue`, or the for loop's else branch once the list is used up.
NextCandidate(l) ==
    IF l.idx < Len(l.try_versions)
    THEN [pc |-> "probe", idx |-> l.idx + 1, outcome |-> Running]
    ELSE [pc |-> "done", idx |-> l.idx,
          outcome |-> Raised("EnvironmentError", ExhaustionMessage(l.try_versions))]

\* Line 337: return app_id.
ReturnValue(app_id) == app_id

\* Lines 331-337, the code after the loop, up to its next remote call.
AfterLoop(id) ==
    IF args.categories THEN [pc |-> "categories", outcome |-> Running]
    ELSE IF args.publish THEN [pc |-> "publish", outcome |-> Running]
    ELSE [pc |-> "done", outcome |-> Returned(ReturnValue(id))]

\* The except clause of the probe (lines 290-294): which errors it absorbs.
ProbeAbsorbs(e) == e \in DXAPIError /\ e.name = "ResourceNotFound"

\* A probe that sends every existing version to the update path.
CandidateVerdict_PublishedAsUnpublished(d) ==
    IF ~d.exists THEN "create" ELSE "update"

\* A probe that takes an unpublished version for a missing one.
CandidateVerdict_UnpublishedAsMissing(d) ==
    IF ~d.exists \/ GetPublished(d) = 0 THEN "create" ELSE "skip"

\* The three-way branch of lines 303-322 on the probe's result.
CandidateVerdict(d) ==
    IF ~d.exists THEN "create"
    ELSE IF GetPublished(d) = 0 THEN "update"
    ELSE "skip"

\* A test that takes every InvalidInput for the alias collision.
IsAliasCollision_NameOnly(e) == e \in DXAPIError /\ e.name = "InvalidInput"

\* The test of line 233 for the name+version alias collision.
IsAliasCollision(e) ==
    e \in DXAPIError /\ e.name = "InvalidInput" /\ e.msg = AliasMsg

\* The test of line 239 on the record found by the re-probe.
ReprobePublished(d) == GetPublished(d) > 0

\* A guard that lets the update through whatever try_update says.
UpdateAllowed_Always(try_update) == TRUE

\* The guard of lines 249-250.
UpdateAllowed(try_update) == try_update

\* A test that never sees the InvalidState error.
IsInvalidState_Never(e) == FALSE

\* The test of line 256.
IsInvalidState(e) == e \in DXAPIError /\ e.name = "InvalidState"

\* An appNew whose id is never returned: the caller sees None.
NewVerdict_IdDropped(r) ==
    IF r.ok THEN "none"
    ELSE IF IsAliasCollision(r.err) THEN "reprobe"
    ELSE "raise"

\* _create_or_update_version, lines 227-242, on the answer of appNew: return
\* the id, go on to the re-probe, or raise ("none": return None).
NewVerdict(r) ==
    IF r.ok THEN "return"
    ELSE IF IsAliasCollision(r.err) THEN "reprobe"
    ELSE "raise"

\* An update step that gives up the candidate on every error of appUpdate.
UpdateVerdict_EveryErrorExhausts(r) ==
    IF r.ok THEN "return" ELSE "none"

\* _update_version, lines 251-259, on the answer of appUpdate.
UpdateVerdict(r) ==
    IF r.ok THEN "return"
    ELSE IF IsInvalidState(r.err) THEN "none"
    ELSE "raise"

\* Entering _update_version: either its appUpdate call is next, or it
\* returns None at once and the caller continues with the next candidate.
EnterUpdate(l) ==
    IF UpdateAllowed(args.try_update)
    THEN [pc |-> "update", idx |-> l.idx, outcome |-> Running]
    ELSE NextCandidate(l)

InitApp ==
    /\ op = "create_app"
    /\ pc = "applet_describe"
    /\ \E tv \in SeqsUpTo(Versions, MaxCandidates), sv \in Versions,
          tu \in BOOLEAN, pub \in BOOLEAN, sd \in BOOLEAN, cat \in BOOLEAN :
          args = [try_versions |-> tv, version |-> sv, try_update |-> tu,
                  publish |-> pub, set_default |-> sd, categories |-> cat]
    /\ apps \in [Versions -> AppStates]
    /\ applets = {}
    /\ member = FALSE
    /\ loc = [try_versions |-> <<>>, idx |-> 0, app_id |-> "none"]

\* Lines 265-282: load the app spec, describe the applet, default try_versions.
CA_DescribeApplet ==
    /\ op = "create_app" /\ pc = "applet_describe"
    /\ \E r \in {Ok("applet")} \cup GenericFaults :
        /\ log' = Append(log, Call("appletDescribe", 0, "applet", r))
        /\ faulted' = (faulted \/ ~r.ok)
        /\ IF r.ok
           THEN /\ loc' = [loc EXCEPT !.try_versions =
                               IF args.try_versions = <<>> THEN <<args.version>>
                               ELSE args.try_versions,
                           !.idx = 1]
                /\ pc' = "probe"
                /\ outcome' = outcome
           ELSE /\ pc' = "done"
                /\ outcome' = RaisedErr(r.err)
                /\ loc' = loc
    /\ UNCHANGED <<op, args, apps, applets, member>>

\* Lines 284-322: probe the candidate and branch on what was found.
CA_Probe ==
    /\ op = "create_app" /\ pc = "probe"
    /\ LET v == loc.try_versions[loc.idx] IN
       \E r \in AppDescribeAnswers(v) \cup AppDescribeFaults :
        /\ log' = Append(log, Call("appDescribe", loc.idx, v, r))
        /\ faulted' = (faulted \/ r \notin AppDescribeAnswers(v))
        /\ IF ~r.ok /\ ~ProbeAbsorbs(r.err)
           THEN /\ pc' = "done"
                /\ outcome' = RaisedErr(r.err)
                /\ loc' = loc
           ELSE LET d == IF r.ok THEN r.val ELSE NoneDesc
                    verdict == CandidateVerdict(d)
                    n == CASE verdict = "create" ->
                                [pc |-> "new", idx |-> loc.idx, outcome |-> Running]
                           [] verdict = "update" -> EnterUpdate(loc)
                           [] OTHER -> NextCandidate(loc)
                IN /\ pc' = n.pc
                   /\ outcome' = n.outcome
                   /\ loc' = [loc EXCEPT !.idx = n.idx]
    /\ UNCHANGED <<op, args, apps, applets, member>>

\* Lines 227-242 and 305-310: appNew and the branch on its result.
CA_New ==
    /\ op = "create_app" /\ pc = "new"
    /\ LET v == loc.try_versions[loc.idx] IN
       \E r \in AppNewAnswers(v) \cup AppNewFaults :
        /\ log' = Append(log, Call("appNew", loc.idx, v, r))
        /\ faulted' = (faulted \/ r \notin AppNewAnswers(v))
        /\ apps' = IF r.ok THEN [apps EXCEPT ![v] = "unpublished"] ELSE apps
        /\ LET verdict == NewVerdict(r)
               n == CASE verdict = "return" -> AfterLoop(r.val) @@ [idx |-> loc.idx]
                      [] verdict = "reprobe" ->
                            [pc |-> "reprobe", idx |-> loc.idx, outcome |-> Running]
                      [] verdict = "none" -> NextCandidate(loc)
                      [] OTHER ->
                            [pc |-> "done", idx |-> loc.idx, outcome |-> RaisedErr(r.err)]
           IN /\ pc' = n.pc
              /\ outcome' = n.outcome
              /\ loc' = [loc EXCEPT !.idx = n.idx,
                                    !.app_id = IF verdict = "return" THEN r.val ELSE @]
    /\ UNCHANGED <<op, args, applets, member>>

\* Lines 238-241: the describe after an alias collision.
CA_Reprobe ==
    /\ op = "create_app" /\ pc = "reprobe"
    /\ LET v == loc.try_versions[loc.idx] IN
       \E r \in AppDescribeAnswers(v) \cup AppDescribeFaults :
        /\ log' = Append(log, Call("appDescribe", loc.idx, v, r))
        /\ faulted' = (faulted \/ r \notin AppDescribeAnswers(v))
        /\ IF ~r.ok
           THEN /\ pc' = "done"
                /\ outcome' = RaisedErr(r.err)
                /\ loc' = loc
           ELSE LET n == IF ReprobePublished(r.val) THEN NextCandidate(loc)
                         ELSE EnterUpdate(loc)
                IN /\ pc' = n.pc
                   /\ outcome' = n.outcome
                   /\ loc' = [loc EXCEPT !.idx = n.idx]
    /\ UNCHANGED <<op, args, apps, applets, member>>

\* Lines 251-259 and 313-318: appUpdate and the branch on its result.
CA_Update ==
    /\ op = "create_app" /\ pc = "update"
    /\ LET v == loc.try_versions[loc.idx] IN
       \E r \in AppUpdateAnswers(v) \cup AppUpdateFaults :
        /\ log' = Append(log, Call("appUpdate", loc.idx, v, r))
        /\ faulted' = (faulted \/ r \notin AppUpdateAnswers(v))
        /\ LET verdict == UpdateVerdict(r)
               n == CASE verdict = "return" -> AfterLoop(r.val) @@ [idx |-> loc.idx]
                      [] verdict = "none" -> NextCandidate(loc)
                      [] OTHER ->
                            [pc |-> "done", idx |-> loc.idx, outcome |-> RaisedErr(r.err)]
           IN /\ pc' = n.pc
              /\ outcome' = n.outcome
              /\ loc' = [loc EXCEPT !.idx = n.idx,
                                    !.app_id = IF verdict = "return" THEN r.val ELSE @]
    /\ UNCHANGED <<op, args, apps, applets, member>>

\* Lines 331-332: appAddCategories.
CA_Categories ==
    /\ op = "create_app" /\ pc = "categories"
    /\ \E r \in {Ok(loc.app_id)} \cup GenericFaults :
        /\ log' = Append(log, Call("appAddCategories", loc.idx, loc.app_id, r))
        /\ faulted' = (faulted \/ ~r.ok)
        /\ IF ~r.ok
           THEN pc' = "done" /\ outcome' = RaisedErr(r.err)
           ELSE IF args.publish
           THEN pc' = "publish" /\ outcome' = outcome
           ELSE pc' = "done" /\ outcome' = Returned(ReturnValue(loc.app_id))
    /\ UNCHANGED <<op, args, apps, applets, member, loc>>

\* Lines 334-337: appPublish, then return app_id.
CA_Publish ==
    /\ op = "create_app" /\ pc = "publish"
    /\ \E r \in {Ok(loc.app_id)} \cup GenericFaults :
        /\ log' = Append(log, Call("appPublish", loc.idx, args.set_default, r))
        /\ faulted' = (faulted \/ ~r.ok)
        /\ apps' = IF r.ok
                   THEN [apps EXCEPT ![loc.try_versions[loc.idx]] = "published"]
                   ELSE apps
        /\ pc' = "done"
        /\ outcome' = IF r.ok THEN Returned(ReturnValue(loc.app_id)) ELSE RaisedErr(r.err)
    /\ UNCHANGED <<op, args, applets, member, loc>>

\* Another publisher creates or publishes a version between two of
\* create_app's calls (the race of the comments at lines 225-226, 298-302).
OtherPublisher ==
    /\ op = "create_app" /\ pc # "done"
    /\ \E v \in Versions :
        /\ apps[v] # "published"
        /\ apps' = [apps EXCEPT ![v] =
                       IF apps[v] = "absent" THEN "unpublished" ELSE "published"]
    /\ UNCHANGED <<op, pc, args, applets, member, log, loc, outcome, faulted>>

(***************************************************************************)
(* The applet spec loader, upload_resources and upload_applet.             *)
(***************************************************************************)

\* A validation that accepts every manifest.
_validate_applet_spec_AcceptsAll(applet_spec) == TRUE

\* _validate_applet_spec: the manifest must hold 'runSpec'.
_validate_applet_spec(applet_spec) == applet_spec.hasRunSpec

\* Lines 87-91 and 118-122: the destination project; the manifest's own
\* project, defaulted to dxpy.WORKSPACE_ID by _get_applet_spec, unless the
\* project argument is given.
DestProject(project) == IF project = "none" THEN "WORKSPACE_ID" ELSE project

\* The error new_folder raises when the folder is already there.
FolderExists == [name |-> "InvalidState", msg |-> "folder already exists"]

\* The except clause of lines 102-103: which errors of new_folder it drops.
FolderErrorDropped(e) == e \in DXAPIError \cup {FolderExists}

\* The execution dependencies of a manifest: each entry holds a name and
\* may hold a url ("none": the key is absent, dep.get gives None).
ToolkitUrl == "git@github.com:dnanexus/dx-toolkit.git"
DepNames == {"dx-toolkit", "libfoo"}
DepUrls == {"none", ToolkitUrl}
Deps == [name : DepNames, url : DepUrls]
\* dx_toolkit_dep of lines 177-181 (the fields the search reads).
dx_toolkit_dep == [name |-> "dx-toolkit", url |-> ToolkitUrl]

\* A search that knows the toolkit by its name only.
IsToolkitDep_NameOnly(dep) == dep.name = "dx-toolkit"

\* Line 186: whether an entry counts as the toolkit dependency.
IsToolkitDep(dep) == dep.name = "dx-toolkit" \/ dep.url = ToolkitUrl

\* Lines 185-187: the search for the toolkit dependency.
dx_toolkit_dep_found(execDepends) ==
    \E i \in 1..Len(execDepends) : IsToolkitDep(execDepends[i])

\* Lines 182-189: the augmentation of runSpec.execDepends (an absent list
\* is the empty list, by setdefault).
AddToolkitDep(execDepends, dx_toolkit_autodep) ==
    IF dx_toolkit_autodep /\ ~dx_toolkit_dep_found(execDepends)
    THEN Append(execDepends, dx_toolkit_dep)
    ELSE execDepends

\* Lines 171-173: attach the bundled resources.
AddBundled(bundledDepends, uploaded_resources) ==
    IF uploaded_resources # <<>> THEN bundledDepends \o uploaded_resources
    ELSE bundledDepends

\* Lines 143-198: the payload handed to appletNew.
AppletPayload ==
    [project |-> DestProject(args.project),
     bundledDepends |-> AddBundled(<<>>, args.uploaded_resources),
     execDepends |-> AddToolkitDep(args.execDepends, args.dx_toolkit_autodep)]

\* A collision loop that removes whether or not overwrite was given.
CollisionAction_AlwaysRemove(overwrite) == "remove"

\* Lines 136-141: what the collision loop does with a hit.
CollisionAction(overwrite) == IF overwrite THEN "remove" ELSE "raise"

\* A collision loop that stops after its first removal.
RemainingHits_StopAfterFirst(results) == <<>>

\* The hits still to be visited once one was removed (the for loop of 135).
RemainingHits(results) == Tail(results)

\* The orders in which find_data_objects can list a set of applets.
Listings(S) ==
    {s \in [1..Cardinality(S) -> S] : \A i, j \in 1..Cardinality(S) : s[i] = s[j] => i = j}

\* The collision loop, entered with the hits still to visit: the next call.
CollisionLoop(results) ==
    IF results = <<>> THEN [pc |-> "applet_new", outcome |-> Running]
    ELSE IF CollisionAction(args.overwrite) = "remove"
    THEN [pc |-> "remove", outcome |-> Running]
    ELSE [pc |-> "done",
          outcome |-> Raised("AppletBuilderException", <<"already exists", results[1]>>)]

NoApps == [v \in Versions |-> "absent"]

InitResources ==
    /\ op = "upload_resources"
    /\ pc = "load"
    /\ \E rs \in BOOLEAN, res \in BOOLEAN, fo \in BOOLEAN, pr \in {"none", "project-arg"} :
          args = [hasRunSpec |-> rs, hasResources |-> res, hasFolder |-> fo, project |-> pr]
    /\ apps = NoApps
    /\ applets = {}
    /\ member = FALSE
    /\ loc = [results |-> <<>>, prior |-> {}]

InitApplet ==
    /\ op = "upload_applet"
    /\ pc = "load"
    /\ \E rs \in BOOLEAN, ur \in {<<>>, <<"resources.tar.gz">>}, cnc \in BOOLEAN,
          ow \in BOOLEAN, ad \in BOOLEAN, cat \in BOOLEAN, pr \in {"none", "project-arg"},
          ed \in SeqsUpTo(Deps, MaxDeps) :
          args = [hasRunSpec |-> rs, uploaded_resources |-> ur,
                  check_name_collisions |-> cnc, overwrite |-> ow,
                  dx_toolkit_autodep |-> ad, categories |-> cat, project |-> pr,
                  execDepends |-> ed]
    /\ apps = NoApps
    /\ applets \in SUBSET (1..MaxApplets)
    /\ member = FALSE
    /\ loc = [results |-> <<>>, prior |-> applets]

\* Lines 85-94 and 109-110: load the applet spec, look for resources/.
UR_Load ==
    /\ op = "upload_resources" /\ pc = "load"
    /\ IF ~_validate_applet_spec(args)
       THEN pc' = "done" /\ outcome' = Raised("AppletBuilderException", <<"runSpec">>)
       ELSE IF args.hasResources
       THEN pc' = "tar" /\ outcome' = outcome
       ELSE pc' = "done" /\ outcome' = Returned("None")
    /\ UNCHANGED <<op, args, apps, applets, member, log, loc, faulted>>

\* Lines 97-99: archive the resources directory.
UR_Tar ==
    /\ op = "upload_resources" /\ pc = "tar"
    /\ \E okay \in BOOLEAN :
        /\ log' = Append(log, Call("tar", 0, "resources",
                                   IF okay THEN Ok("archive") ELSE Err(NoErr)))
        /\ faulted' = (faulted \/ ~okay)
        /\ IF ~okay
           THEN pc' = "done" /\ outcome' = Raised("CalledProcessError", <<"tar">>)
           ELSE IF args.hasFolder
           THEN pc' = "new_folder" /\ outcome' = outcome
           ELSE pc' = "upload" /\ outcome' = outcome
    /\ UNCHANGED <<op, args, apps, applets, member, loc>>

\* Lines 100-103: create the destination folder.
UR_NewFolder ==
    /\ op = "upload_resources" /\ pc = "new_folder"
    /\ \E r \in {Ok("folder"), Err(FolderExists)} \cup GenericFaults :
        /\ log' = Append(log, Call("new_folder", 0, DestProject(args.project), r))
        /\ faulted' = (faulted \/ r \in GenericFaults)
        /\ IF r.ok \/ FolderErrorDropped(r.err)
           THEN pc' = "upload" /\ outcome' = outcome
           ELSE pc' = "done" /\ outcome' = RaisedErr(r.err)
    /\ UNCHANGED <<op, args, apps, applets, member, loc>>

\* Lines 104-108: upload the archive and return its descriptor.
UR_Upload ==
    /\ op = "upload_resources" /\ pc = "upload"
    /\ \E r \in {Ok("file-1")} \cup GenericFaults :
        /\ log' = Append(log, Call("upload_local_file", 0, DestProject(args.project), r))
        /\ faulted' = (faulted \/ ~r.ok)
        /\ pc' = "done"
        /\ outcome' = IF r.ok
                      THEN Returned(<<[name |-> "resources.tar.gz", id |-> r.val]>>)
                      ELSE RaisedErr(r.err)
    /\ UNCHANGED <<op, args, apps, applets, member, loc>>

\* Lines 116-133: load the applet spec, resolve project, name and dxapi.
UA_Load ==
    /\ op = "upload_applet" /\ pc = "load"
    /\ IF ~_validate_applet_spec(args)
       THEN pc' = "done" /\ outcome' = Raised("AppletBuilderException", <<"runSpec">>)
       ELSE IF args.check_name_collisions
       THEN pc' = "find" /\ outcome' = outcome
       ELSE pc' = "applet_new" /\ outcome' = outcome
    /\ UNCHANGED <<op, args, apps, applets, member, log, loc, faulted>>

\* Lines 135-141: search for applets of the same name, visit the first hit.
UA_Find ==
    /\ op = "upload_applet" /\ pc = "find"
    /\ \E r \in {Ok(s) : s \in Listings(applets)} \cup GenericFaults :
        /\ log' = Append(log, Call("find_data_objects", 0, DestProject(args.project), r))
        /\ faulted' = (faulted \/ ~r.ok)
        /\ IF ~r.ok
           THEN pc' = "done" /\ outcome' = RaisedErr(r.err) /\ loc' = loc
           ELSE LET n == CollisionLoop(r.val) IN
                pc' = n.pc /\ outcome' = n.outcome /\ loc' = [loc EXCEPT !.results = r.val]
    /\ UNCHANGED <<op, args, apps, applets, member>>

\* Lines 137-139: remove one prior applet, go on to the next hit.
UA_Remove ==
    /\ op = "upload_applet" /\ pc = "remove"
    /\ \E r \in {Ok("removed")} \cup GenericFaults :
        /\ log' = Append(log, Call("remove_objects", 0, loc.results[1], r))
        /\ faulted' = (faulted \/ ~r.ok)
        /\ IF ~r.ok
           THEN pc' = "done" /\ outcome' = RaisedErr(r.err) /\ loc' = loc
                /\ applets' = applets
           ELSE LET rest == RemainingHits(loc.results)
                    n == CollisionLoop(rest) IN
                /\ pc' = n.pc /\ outcome' = n.outcome
                /\ loc' = [loc EXCEPT !.results = rest]
                /\ applets' = applets \ {loc.results[1]}
    /\ UNCHANGED <<op, args, apps, member>>

\* Lines 143-203: shape the payload and create the applet.
UA_AppletNew ==
    /\ op = "upload_applet" /\ pc = "applet_new"
    /\ \E r \in {Ok("applet-new")} \cup GenericFaults :
        /\ log' = Append(log, Call("appletNew", 0, AppletPayload, r))
        /\ faulted' = (faulted \/ ~r.ok)
        /\ IF r.ok
           THEN pc' = "set_properties" /\ outcome' = outcome
           ELSE pc' = "done" /\ outcome' = RaisedErr(r.err)
    /\ UNCHANGED <<op, args, apps, applets, member, loc>>

\* Lines 205-213: set the descriptive properties.
UA_SetProperties ==
    /\ op = "upload_applet" /\ pc = "set_properties"
    /\ \E r \in {Ok("applet-new")} \cup GenericFaults :
        /\ log' = Append(log, Call("appletSetProperties", 0, DestProject(args.project), r))
        /\ faulted' = (faulted \/ ~r.ok)
        /\ IF ~r.ok
           THEN pc' = "done" /\ outcome' = RaisedErr(r.err)
           ELSE IF args.categories
           THEN pc' = "add_tags" /\ outcome' = outcome
           ELSE pc' = "done" /\ outcome' = Returned("applet-new")
    /\ UNCHANGED <<op, args, apps, applets, member, loc>>

\* Lines 215-218: tag the applet with its categories and return its id.
UA_AddTags ==
    /\ op = "upload_applet" /\ pc = "add_tags"
    /\ \E r \in {Ok("applet-new")} \cup GenericFaults :
        /\ log' = Append(log, Call("add_tags", 0, DestProject(args.project), r))
        /\ faulted' = (faulted \/ ~r.ok)
        /\ pc' = "done"
        /\ outcome' = IF r.ok THEN Returned("applet-new") ELSE RaisedErr(r.err)
    /\ UNCHANGED <<op, args, apps, applets, member, loc>>

(***************************************************************************)
(* The org membership commands.                                            *)
(***************************************************************************)

\* The answers the platform gives to org_get_member_access.
MemberAccessAnswers == IF member THEN {Ok("ADMIN")} ELSE {Err(NotFound)}

\* Lines 55-61 of org.py: the bare except clause of add_membership's probe.
AddProbeAbsorbs(e) == TRUE

\* A gate that is open whatever the confirm flag says.
ConfirmedAtStart_Always(confirm) == TRUE

\* Line 86 of org.py: confirmed before any prompt.
ConfirmedAtStart(confirm) == ~confirm

\* _get_org_remove_member_args.
_get_org_remove_member_args(a) ==
    [user |-> "user-" \o a.username,
     revokeProjectPermissions |-> a.revoke_project_permissions,
     revokeAppPermissions |-> a.revoke_app_permissions]

InitOrg ==
    /\ op \in {"add_membership", "remove_membership", "update_membership"}
    /\ pc = "probe"
    /\ \E cf \in BOOLEAN, br \in BOOLEAN, rpp \in BOOLEAN, rap \in BOOLEAN,
          lv \in {"ADMIN", "MEMBER"} :
          args = [username |-> "alice", confirm |-> cf, brief |-> br,
                  revoke_project_permissions |-> rpp, revoke_app_permissions |-> rap,
                  level |-> lv]
    /\ apps = NoApps
    /\ applets = {}
    /\ member \in BOOLEAN
    /\ loc = [prompted |-> FALSE, confirmed |-> FALSE]

\* add_membership, lines 55-61: the membership probe.
AM_Probe ==
    /\ op = "add_membership" /\ pc = "probe"
    /\ \E r \in MemberAccessAnswers \cup GenericFaults :
        /\ log' = Append(log, Call("org_get_member_access", 0, args.username, r))
        /\ faulted' = (faulted \/ r \in GenericFaults)
        /\ IF r.ok
           THEN pc' = "done" /\ outcome' = Raised("DXCLIError", <<"already a member">>)
           ELSE IF AddProbeAbsorbs(r.err)
           THEN pc' = "invite" /\ outcome' = outcome
           ELSE pc' = "done" /\ outcome' = RaisedErr(r.err)
    /\ UNCHANGED <<op, args, apps, applets, member, loc>>

\* add_membership, lines 63-69: the invitation.
AM_Invite ==
    /\ op = "add_membership" /\ pc = "invite"
    /\ \E r \in {Ok("invited")} \cup GenericFaults :
        /\ log' = Append(log, Call("org_invite", 0, args.level, r))
        /\ faulted' = (faulted \/ ~r.ok)
        /\ pc' = "done"
        /\ outcome' = IF r.ok THEN Returned("None") ELSE RaisedErr(r.err)
    /\ UNCHANGED <<op, args, apps, applets, member, loc>>

\* remove_membership, lines 83-87: the membership probe.
RM_Probe ==
    /\ op = "remove_membership" /\ pc = "probe"
    /\ \E r \in MemberAccessAnswers \cup GenericFaults :
        /\ log' = Append(log, Call("org_get_member_access", 0, args.username, r))
        /\ faulted' = (faulted \/ r \in GenericFaults)
        /\ IF ~r.ok
           THEN pc' = "done" /\ outcome' = RaisedErr(r.err) /\ loc' = loc
           ELSE /\ loc' = [loc EXCEPT !.confirmed = ConfirmedAtStart(args.confirm)]
                /\ pc' = IF ConfirmedAtStart(args.confirm) THEN "remove" ELSE "prompt"
                /\ outcome' = outcome
    /\ UNCHANGED <<op, args, apps, applets, member>>

\* remove_membership, lines 88-97 and 119-121: the interactive confirmation.
RM_Prompt ==
    /\ op = "remove_membership" /\ pc = "prompt"
    /\ \E yes \in BOOLEAN :
        /\ loc' = [loc EXCEPT !.prompted = TRUE, !.confirmed = yes]
        /\ IF yes
           THEN pc' = "remove" /\ outcome' = outcome
           ELSE pc' = "done" /\ outcome' = Returned("None")
    /\ UNCHANGED <<op, args, apps, applets, member, log, faulted>>

\* remove_membership, lines 98-118: the removal.
RM_Remove ==
    /\ op = "remove_membership" /\ pc = "remove"
    /\ \E r \in {Ok("removed")} \cup GenericFaults :
        /\ log' = Append(log, Call("org_remove_member", 0, _get_org_remove_member_args(args), r))
        /\ faulted' = (faulted \/ ~r.ok)
        /\ member' = IF r.ok THEN FALSE ELSE member
        /\ pc' = "done"
        /\ outcome' = IF r.ok THEN Returned("None") ELSE RaisedErr(r.err)
    /\ UNCHANGED <<op, args, apps, applets, loc>>

\* update_membership, lines 139-140: the membership probe.
UM_Probe ==
    /\ op = "update_membership" /\ pc = "probe"
    /\ \E r \in MemberAccessAnswers \cup GenericFaults :
        /\ log' = Append(log, Call("org_get_member_access", 0, args.username, r))
        /\ faulted' = (faulted \/ r \in GenericFaults)
        /\ IF r.ok
           THEN pc' = "set_access" /\ outcome' = outcome
           ELSE pc' = "done" /\ outcome' = RaisedErr(r.err)
    /\ UNCHANGED <<op, args, apps, applets, member, loc>>

\* update_membership, lines 141-147: set the access level.
UM_SetAccess ==
    /\ op = "update_membership" /\ pc = "set_access"
    /\ \E r \in {Ok("updated")} \cup GenericFaults :
        /\ log' = Append(log, Call("org_set_member_access", 0, args.level, r))
        /\ faulted' = (faulted \/ ~r.ok)
        /\ pc' = "done"
        /\ outcome' = IF r.ok THEN Returned("None") ELSE RaisedErr(r.err)
    /\ UNCHANGED <<op, args, apps, applets, member, loc>>

Init ==
    /\ log = <<>>
    /\ outcome = Running
    /\ faulted = FALSE
    /\ (InitApp \/ InitResources \/ InitApplet \/ InitOrg)

Next ==
    \/ CA_DescribeApplet
    \/ CA_Probe
    \/ CA_New
    \/ CA_Reprobe
    \/ CA_Update
    \/ CA_Categories
    \/ CA_Publish
    \/ OtherPublisher
    \/ UR_Load
    \/ UR_Tar
    \/ UR_NewFolder
    \/ UR_Upload
    \/ UA_Load
    \/ UA_Find
    \/ UA_Remove
    \/ UA_AppletNew
    \/ UA_SetProperties
    \/ UA_AddTags
    \/ AM_Probe
    \/ AM_Invite
    \/ RM_Probe
    \/ RM_Prompt
    \/ RM_Remove
    \/ UM_Probe
    \/ UM_SetAccess

Spec == Init /\ [][Next]_vars

\* The steps of create_app itself (everything but the other publishers).
CreateAppStep ==
    \/ CA_DescribeApplet
    \/ CA_Probe
    \/ CA_New
    \/ CA_Reprobe
    \/ CA_Update
    \/ CA_Categories
    \/ CA_Publish

\* create_app is sequential code: the interpreter goes on to the next
\* statement, and every remote call it issues returns or raises.  So a step
\* of create_app that stays possible is taken; nothing is assumed about if
\* and when the other publishers act.
Fairness == WF_vars(CreateAppStep)

\* create_app alone, racing with the other publishers.  set_default is only
\* handed on to appPublish and `version` is only read when try_versions is
\* not given, so they are fixed where they play no part.
InitRace ==
    /\ log = <<>> /\ outcome = Running /\ faulted = FALSE
    /\ InitApp
    /\ ~args.set_default
    /\ args.try_versions # <<>> => args.version = args.try_versions[1]

NextRace == CreateAppStep \/ OtherPublisher

RaceSpec == InitRace /\ [][NextRace]_vars /\ Fairness
(***************************************************************************)
(* Reading the call log.                                                   *)
(***************************************************************************)
LogIdx == 1..Len(log)
Range(f) == {f[i] : i \in DOMAIN f}
Issued(c) == \E i \in LogIdx : log[i].call = c
RunsApp == op = "create_app"

\* The probe of a candidate is the first call made for its list position;
\* a later appDescribe for the same position is the re-probe after appNew.
IsInitialProbe(i) ==
    /\ log[i].call = "appDescribe"
    /\ i > 1
    /\ log[i - 1].idx # log[i].idx
FoundPublished(r) == r.ok /\ GetPublished(r.val) > 0
FoundUnpublished(r) == r.ok /\ GetPublished(r.val) = 0
FoundNothing(r) == ~r.ok /\ r.err = NotFound

\* create_app was called for one candidate and its probe has answered.
SingleProbed ==
    /\ RunsApp
    /\ Len(loc.try_versions) = 1
    /\ Len(log) >= 2
    /\ IsInitialProbe(2)
SingleProbedNothing == SingleProbed /\ FoundNothing(log[2].resp)
SingleProbedUnpublished == SingleProbed /\ FoundUnpublished(log[2].resp)

\* The invocation returned the id that a successful call `c` gave.
ReturnedIdOf(c) ==
    /\ outcome.kind = "returned"
    /\ \E i \in LogIdx : log[i].call = c /\ log[i].resp.ok /\ log[i].resp.val = outcome.val

\* The version at position k stands nowhere else in the list.
OccursOnce(tv, k) == \A m \in 1..Len(tv) : tv[m] = tv[k] => m = k

\* C1: in create_app, a candidate (a position of the list) whose probe finds
\* it published gets no appNew and no appUpdate call and no second
\* appDescribe, neither does its version string when the list holds it once,
\* and the next call is the probe of the candidate after it; when every candidate of a list of
\* two or more is found published, create_app raises the EnvironmentError
\* whose message holds every version string, and has issued no appNew,
\* appUpdate, appAddCategories or appPublish call.
C1_PublishedSkipped ==
    RunsApp =>
    /\ \A i \in LogIdx :
        (IsInitialProbe(i) /\ FoundPublished(log[i].resp)) =>
        LET k == log[i].idx IN
        /\ \A j \in LogIdx :
            /\ ~(log[j].call \in {"appNew", "appUpdate"} /\ log[j].idx = k)
            /\ (log[j].call = "appDescribe" /\ log[j].idx = k) => j = i
            /\ OccursOnce(loc.try_versions, k) =>
                /\ ~(log[j].call \in {"appNew", "appUpdate"}
                     /\ log[j].arg = loc.try_versions[k])
                /\ (log[j].call = "appDescribe"
                    /\ log[j].arg = loc.try_versions[k]) => j = i
        /\ k < Len(loc.try_versions) =>
            IF i = Len(log)
            THEN pc = "probe" /\ loc.idx = k + 1
            ELSE /\ log[i + 1].call = "appDescribe"
                 /\ log[i + 1].idx = k + 1
                 /\ log[i + 1].arg = loc.try_versions[k + 1]
    /\ ( /\ Len(loc.try_versions) >= 2
         /\ \A k \in 1..Len(loc.try_versions) :
              \E i \in LogIdx : /\ IsInitialProbe(i) /\ log[i].idx = k
                                /\ FoundPublished(log[i].resp) )
       => /\ pc = "done"
          /\ outcome.kind = "raised"
          /\ outcome.exc = "EnvironmentError"
          /\ \A k \in 1..Len(loc.try_versions) :
                loc.try_versions[k] \in Range(outcome.msg)
          /\ ~Issued("appNew") /\ ~Issued("appUpdate")
          /\ ~Issued("appAddCategories") /\ ~Issued("appPublish")

\* Two different versions, both found published: create_app gave up.
C1_Witness ==
    /\ RunsApp
    /\ Len(loc.try_versions) = 2
    /\ loc.try_versions[1] # loc.try_versions[2]
    /\ Len(log) = 3
    /\ FoundPublished(log[2].resp) /\ FoundPublished(log[3].resp)
    /\ outcome.exc = "EnvironmentError"

\* C2 as stated: create_app for a single candidate whose probe answers
\* ResourceNotFound never calls appUpdate and ends by returning the id that
\* appNew gave (with try_update at its default, and no call failing for a
\* reason outside the platform's state).
C2_AsStated ==
    (SingleProbedNothing /\ args.try_update /\ ~faulted) =>
    /\ ~Issued("appUpdate")
    /\ pc = "done" => ReturnedIdOf("appNew")

\* C2, amended: create_app for a single candidate whose probe answers
\* ResourceNotFound and whose appNew call then succeeds never calls
\* appUpdate and never describes the version again; it ends by returning
\* the id appNew gave, unless a later appAddCategories or appPublish call
\* fails, and then it raises that error.
C2_CreatePath ==
    (SingleProbedNothing /\ Len(log) >= 3 /\ log[3].resp.ok) =>
    /\ log[3].call = "appNew"
    /\ ~Issued("appUpdate")
    /\ \A j \in LogIdx : log[j].call \in {"appDescribe", "appNew"} => j <= 3
    /\ outcome.kind = "returned" => outcome.val = log[3].resp.val
    /\ pc = "done" =>
        \/ ReturnedIdOf("appNew")
        \/ /\ outcome.kind = "raised"
           /\ ~log[Len(log)].resp.ok
           /\ log[Len(log)].call \in {"appAddCategories", "appPublish"}
           /\ outcome.err = log[Len(log)].resp.err

\* A single absent version was created and create_app returned its id.
C2_Witness ==
    /\ SingleProbedNothing
    /\ ReturnedIdOf("appNew")
    /\ ~Issued("appUpdate")

\* C3 as stated: create_app for a single candidate whose probe finds it
\* unpublished never calls appNew and ends by returning the id that
\* appUpdate gave (no call failing for a reason outside the platform's state).
C3_AsStated ==
    (SingleProbedUnpublished /\ ~faulted) =>
    /\ ~Issued("appNew")
    /\ pc = "done" => ReturnedIdOf("appUpdate")

\* C3, amended: create_app for a single candidate whose probe finds it
\* unpublished never calls appNew.  With try_update set its next call is
\* appUpdate; if that call succeeds create_app returns the id it gave
\* (unless a later appAddCategories or appPublish call fails), and if it
\* fails with InvalidState create_app raises the exhaustion error.  With
\* try_update unset no appUpdate call is made and create_app raises the
\* exhaustion error.
C3_UpdatePath ==
    SingleProbedUnpublished =>
    /\ ~Issued("appNew")
    /\ args.try_update =>
        /\ Len(log) = 2 => pc = "update"
        /\ Len(log) >= 3 =>
            /\ log[3].call = "appUpdate"
            /\ log[3].resp.ok =>
                /\ outcome.kind = "returned" => outcome.val = log[3].resp.val
                /\ pc = "done" =>
                    \/ ReturnedIdOf("appUpdate")
                    \/ /\ outcome.kind = "raised"
                       /\ ~log[Len(log)].resp.ok
                       /\ log[Len(log)].call \in {"appAddCategories", "appPublish"}
            /\ (~log[3].resp.ok /\ log[3].resp.err.name = "InvalidState") =>
                /\ pc = "done" /\ outcome.exc = "EnvironmentError"
    /\ ~args.try_update =>
        /\ ~Issued("appUpdate")
        /\ pc = "done" /\ outcome.exc = "EnvironmentError"

\* A single unpublished version was updated and create_app returned its id.
C3_Witness ==
    /\ SingleProbedUnpublished
    /\ ReturnedIdOf("appUpdate")
    /\ ~Issued("appNew")
(***************************************************************************)
(* upload_applet and upload_resources.                                     *)
(***************************************************************************)
RunsApplet == op = "upload_applet"
AppletCalls == {"remove_objects", "appletNew", "appletSetProperties", "add_tags"}
NamingConflict == outcome.exc = "AppletBuilderException" /\ outcome.msg[1] = "already exists"

\* C4 as stated: upload_applet with overwrite unset, for a valid manifest
\* whose name an applet of the project already carries, raises the
\* naming-conflict error and calls none of remove_objects, appletNew,
\* appletSetProperties and add_tags (no call failing for a reason outside the
\* platform's state).
C4_AsStated ==
    (RunsApplet /\ ~args.overwrite /\ args.hasRunSpec /\ loc.prior # {} /\ ~faulted) =>
    /\ \A i \in LogIdx : log[i].call \notin AppletCalls
    /\ pc = "done" => NamingConflict

\* C4, amended: upload_applet with overwrite unset never calls
\* remove_objects; with check_name_collisions set, once the search lists an
\* applet of the same name it raises the naming-conflict error naming the
\* first applet listed, and has called none of remove_objects, appletNew,
\* appletSetProperties and add_tags.
C4_ConflictRaised ==
    (RunsApplet /\ ~args.overwrite) =>
    /\ ~Issued("remove_objects")
    /\ \A i \in LogIdx :
        (/\ args.check_name_collisions
         /\ log[i].call = "find_data_objects"
         /\ log[i].resp.ok
         /\ log[i].resp.val # <<>>) =>
        /\ i = Len(log)
        /\ pc = "done"
        /\ outcome.kind = "raised"
        /\ NamingConflict
        /\ outcome.msg[2] = log[i].resp.val[1]
        /\ \A j \in LogIdx : log[j].call \notin AppletCalls

\* The search found a same-named applet and upload_applet refused.
C4_Witness ==
    /\ RunsApplet /\ ~args.overwrite /\ args.check_name_collisions
    /\ loc.prior # {}
    /\ Issued("find_data_objects")
    /\ pc = "done" /\ NamingConflict

\* The applet a was removed by a call made before the i-th call.
RemovedBefore(a, i) ==
    \E j \in 1..(i - 1) :
        log[j].call = "remove_objects" /\ log[j].arg = a /\ log[j].resp.ok

\* C5 as stated: upload_applet with overwrite set issues appletNew only
\* after every applet that carried the name was removed.
C5_AsStated ==
    (RunsApplet /\ args.overwrite) =>
    \A i \in LogIdx :
        log[i].call = "appletNew" => \A a \in loc.prior : RemovedBefore(a, i)

\* C5, amended: upload_applet with overwrite set and check_name_collisions
\* set issues appletNew only after every applet that carried the name was
\* removed by a successful remove_objects call, one call per applet, in the
\* order the search listed them; no remove_objects call follows appletNew
\* (with check_name_collisions unset nothing is searched or removed).
C5_RemovedBeforeNew ==
    (RunsApplet /\ args.overwrite) =>
    /\ \A i \in LogIdx :
        (args.check_name_collisions /\ log[i].call = "appletNew") =>
        /\ \A a \in loc.prior : RemovedBefore(a, i)
        /\ applets = {}
        /\ i = Cardinality(loc.prior) + 2
        /\ \A m \in 1..Cardinality(loc.prior) :
              /\ log[m + 1].call = "remove_objects"
              /\ log[m + 1].arg = log[1].resp.val[m]
    /\ \A i, j \in LogIdx :
        (log[i].call = "appletNew" /\ log[j].call = "remove_objects") => j < i
    /\ ~args.check_name_collisions =>
        ~Issued("find_data_objects") /\ ~Issued("remove_objects")

\* Two prior applets were removed and the new applet was then created.
C5_Witness ==
    /\ RunsApplet /\ args.overwrite /\ args.check_name_collisions
    /\ Cardinality(loc.prior) = 2
    /\ Len(log) >= 4
    /\ log[4].call = "appletNew" /\ log[4].resp.ok

(***************************************************************************)
(* remove_membership.                                                      *)
(***************************************************************************)
RunsRemove == op = "remove_membership"

\* C6: in remove_membership, when confirmation is required
\* org_remove_member is called only after the prompt was answered yes, and
\* once the prompt is declined the command ends having made the single
\* call org_get_member_access; when confirmation is not required the prompt
\* never happens and, once the probe has answered, the next call is
\* org_remove_member.
C6_ConfirmationGate ==
    RunsRemove =>
    /\ (args.confirm /\ (pc = "remove" \/ Issued("org_remove_member"))) =>
        loc.prompted /\ loc.confirmed
    /\ (args.confirm /\ loc.prompted /\ ~loc.confirmed) =>
        /\ pc = "done"
        /\ outcome = Returned("None")
        /\ Len(log) = 1
        /\ log[1].call = "org_get_member_access"
        /\ member
    /\ ~args.confirm =>
        /\ ~loc.prompted
        /\ pc # "prompt"
        /\ (Len(log) >= 1 /\ log[1].resp.ok) =>
            IF Len(log) = 1 THEN pc = "remove"
            ELSE log[2].call = "org_remove_member"
        /\ outcome.kind = "returned" => Issued("org_remove_member")

\* The user was asked and said no.
C6_Witness ==
    /\ RunsRemove /\ args.confirm
    /\ loc.prompted /\ ~loc.confirmed
    /\ pc = "done"

\* C7: upload_resources and upload_applet, given a manifest without
\* runSpec, raise the AppletBuilderException about runSpec as their first
\* step: no remote call, no archive step and no upload is ever made.
C7_NoRunSpecNoCalls ==
    (op \in {"upload_resources", "upload_applet"} /\ ~args.hasRunSpec) =>
    /\ log = <<>>
    /\ pc \in {"load", "done"}
    /\ pc = "done" =>
        /\ outcome.kind = "raised"
        /\ outcome.exc = "AppletBuilderException"
        /\ outcome.msg = <<"runSpec">>
    /\ applets = loc.prior

\* upload_resources has refused a manifest without runSpec, resources and all.
C7_Witness ==
    /\ op = "upload_resources"
    /\ ~args.hasRunSpec
    /\ args.hasResources
    /\ pc = "done"
    /\ outcome.exc = "AppletBuilderException"
(***************************************************************************)
(* The propagation of remote failures.                                     *)
(***************************************************************************)

\* The failures an operation is meant to recover from: the folder that is
\* already there (upload_resources), the three answers create_app reads as
\* the state of a version, and the answer that tells add_membership that
\* the user is no member yet.
DesignedRecovery(i) ==
    LET c == log[i].call
        e == log[i].resp.err
    IN \/ op = "upload_resources" /\ c = "new_folder" /\ e = FolderExists
       \/ /\ op = "create_app"
          /\ \/ c = "appDescribe" /\ IsInitialProbe(i) /\ e.name = "ResourceNotFound"
             \/ c = "appNew" /\ e = AliasCollision
             \/ c = "appUpdate" /\ e.name = "InvalidState"
       \/ op = "add_membership" /\ c = "org_get_member_access" /\ e = NotFound

\* C8: a remote call that fails, other than by a failure the operation is
\* meant to recover from, is the last call of the operation, and the
\* operation ends by raising that failure to its caller.
C8_FailuresPropagate ==
    \A i \in LogIdx :
        (~log[i].resp.ok /\ ~DesignedRecovery(i)) =>
        /\ i = Len(log)
        /\ pc = "done"
        /\ outcome.kind = "raised"
        /\ outcome.err = log[i].resp.err

(***************************************************************************)
(* The toolkit dependency.                                                 *)
(***************************************************************************)
NamesToolkit(dep) == dep.name = "dx-toolkit" \/ dep.url = ToolkitUrl
HoldsToolkit(deps) == \E i \in 1..Len(deps) : NamesToolkit(deps[i])

\* C9: with dx_toolkit_autodep set, the execDepends list that upload_applet
\* hands to appletNew holds a toolkit entry; it is the manifest's list
\* unchanged when that list already holds an entry whose name is
\* 'dx-toolkit' or whose url is the toolkit's, and the manifest's list with
\* dx_toolkit_dep appended once otherwise; augmenting it once more leaves
\* it unchanged.
C9_ToolkitDepOnce ==
    (RunsApplet /\ args.dx_toolkit_autodep) =>
    \A i \in LogIdx :
        log[i].call = "appletNew" =>
        LET given == args.execDepends
            sent == log[i].arg.execDepends
        IN /\ HoldsToolkit(sent)
           /\ HoldsToolkit(given) => sent = given
           /\ ~HoldsToolkit(given) => sent = Append(given, dx_toolkit_dep)
           /\ AddToolkitDep(sent, args.dx_toolkit_autodep) = sent
           /\ Len(AddToolkitDep(sent, args.dx_toolkit_autodep)) <= Len(given) + 1

\* A manifest with other dependencies only got the toolkit appended.
C9_Witness ==
    /\ RunsApplet /\ args.dx_toolkit_autodep
    /\ Len(args.execDepends) = 2
    /\ ~HoldsToolkit(args.execDepends)
    /\ \E i \in LogIdx :
        /\ log[i].call = "appletNew"
        /\ log[i].arg.execDepends = Append(args.execDepends, dx_toolkit_dep)

(***************************************************************************)
(* create_app: the create path.                                            *)
(***************************************************************************)

\* After the j-th call, candidate k is given up: the next candidate is
\* probed, or the list is used up and the exhaustion error is raised.
Exhausted(j, k) ==
    IF j = Len(log)
    THEN \/ k < Len(loc.try_versions) /\ pc = "probe" /\ loc.idx = k + 1
         \/ /\ k = Len(loc.try_versions)
            /\ pc = "done"
            /\ outcome.exc = "EnvironmentError"
    ELSE log[j + 1].call = "appDescribe" /\ log[j + 1].idx = k + 1

\* After the j-th call, appUpdate is called for candidate k.
UpdateTaken(j, k) ==
    IF j = Len(log)
    THEN pc = "update" /\ loc.idx = k
    ELSE log[j + 1].call = "appUpdate" /\ log[j + 1].idx = k

\* With try_update set appUpdate is called, without it the candidate is
\* given up.
UpdateIfAllowed(j, k) == IF args.try_update THEN UpdateTaken(j, k) ELSE Exhausted(j, k)

\* What follows each appNew call; a re-probe that finds the candidate
\* unpublished is followed by appUpdate (always), or by what try_update says.
AfterAppNew(always) ==
    RunsApp =>
    \A i \in LogIdx :
        log[i].call = "appNew" =>
        LET r == log[i].resp
            k == log[i].idx
        IN /\ r.ok =>
                /\ loc.app_id = r.val
                /\ \A j \in LogIdx :
                      j > i => log[j].call \in {"appAddCategories", "appPublish"}
                /\ outcome.kind = "returned" => outcome.val = r.val
                /\ pc = "done" =>
                    \/ outcome.kind = "returned"
                    \/ /\ outcome.kind = "raised"
                       /\ ~log[Len(log)].resp.ok
                       /\ outcome.err = log[Len(log)].resp.err
           /\ (~r.ok /\ r.err = AliasCollision) =>
                IF i = Len(log)
                THEN pc = "reprobe" /\ loc.idx = k
                ELSE /\ log[i + 1].call = "appDescribe"
                     /\ log[i + 1].idx = k
                     /\ log[i + 1].arg = log[i].arg
                     /\ FoundPublished(log[i + 1].resp) => Exhausted(i + 1, k)
                     /\ FoundUnpublished(log[i + 1].resp) =>
                          IF always THEN UpdateTaken(i + 1, k)
                          ELSE UpdateIfAllowed(i + 1, k)
           /\ (~r.ok /\ r.err # AliasCollision) =>
                /\ i = Len(log)
                /\ pc = "done"
                /\ outcome = RaisedErr(r.err)

\* C10 as stated: after appNew, success ends the loop with the id given; an
\* alias collision is followed by a re-probe, and then by the next
\* candidate if the record found is published and by appUpdate otherwise;
\* any other error is raised at once.
C10_AsStated == AfterAppNew(TRUE)

\* C10, amended: as stated, but a re-probe that finds the record
\* unpublished is followed by appUpdate only when try_update is set; when
\* it is not, the candidate is given up like a published one.
C10_CreatePath == AfterAppNew(FALSE)

\* appNew met the alias collision, the re-probe found the version
\* unpublished, and appUpdate was called for it.
C10_Witness ==
    /\ RunsApp
    /\ \E i \in LogIdx :
        /\ i + 2 <= Len(log)
        /\ log[i].call = "appNew" /\ log[i].resp.err = AliasCollision
        /\ FoundUnpublished(log[i + 1].resp)
        /\ log[i + 2].call = "appUpdate" /\ log[i + 2].resp.ok

(***************************************************************************)
(* create_app: the update path.                                            *)
(***************************************************************************)

\* The j-th call is an appUpdate that comes straight after a describe (the
\* initial probe or the re-probe) that found its candidate unpublished.
TreatedAsUnpublished(j) ==
    /\ j > 1
    /\ log[j - 1].call = "appDescribe"
    /\ log[j - 1].idx = log[j].idx
    /\ log[j - 1].arg = log[j].arg
    /\ FoundUnpublished(log[j - 1].resp)

\* C11: in create_app every appUpdate call is made for a candidate that the
\* describe just before it found existing and unpublished, and what follows
\* the call is fixed by its answer.  If appUpdate succeeds, the loop
\* ends with that id: no candidate is tried any more, only appAddCategories
\* and appPublish may follow, and the invocation returns that id (or raises
\* the error of one of those two later calls).  If appUpdate fails with
\* InvalidState, the candidate is exhausted: the next candidate is probed,
\* or the exhaustion error is raised when it was the last.  Any other
\* appUpdate error is raised to the caller at once and no further call is
\* made.
C11_UpdateOutcomes ==
    RunsApp =>
    \A i \in LogIdx :
        log[i].call = "appUpdate" =>
        LET r == log[i].resp
            k == log[i].idx
        IN /\ TreatedAsUnpublished(i)
           /\ r.ok =>
                /\ loc.app_id = r.val
                /\ \A j \in LogIdx :
                      j > i => log[j].call \in {"appAddCategories", "appPublish"}
                /\ outcome.kind = "returned" => outcome.val = r.val
                /\ pc = "done" =>
                    \/ outcome.kind = "returned"
                    \/ /\ outcome.kind = "raised"
                       /\ Len(log) > i
                       /\ ~log[Len(log)].resp.ok
                       /\ outcome.err = log[Len(log)].resp.err
           /\ (~r.ok /\ r.err.name = "InvalidState") => Exhausted(i, k)
           /\ (~r.ok /\ r.err.name # "InvalidState") =>
                /\ i = Len(log)
                /\ pc = "done"
                /\ outcome = RaisedErr(r.err)

\* The appUpdate of the first candidate failed with InvalidState, the second
\* candidate was tried, its appUpdate succeeded and create_app returned the
\* id that call gave.
C11_Witness ==
    /\ RunsApp
    /\ pc = "done"
    /\ outcome.kind = "returned"
    /\ \E i, j \in LogIdx :
        /\ i < j
        /\ log[i].call = "appUpdate" /\ log[i].idx = 1
        /\ log[i].resp.err = InvalidState
        /\ log[j].call = "appUpdate" /\ log[j].idx = 2
        /\ log[j].resp.ok
        /\ outcome.val = log[j].resp.val

(***************************************************************************)
(* create_app: the race with other publishers.                             *)
(***************************************************************************)

\* So far every remote call was answered as the state of the platform at
\* the time of the call dictates: whatever went wrong is the work of the
\* other publishers alone.
RaceOnly == RunsApp /\ ~faulted

\* The calls create_app makes for a candidate.
CandidateCalls == {"appDescribe", "appNew", "appUpdate"}

\* The names of the calls made for the candidate at position k, in order.
CallsFor(k) ==
    LET s == SelectSeq(log, LAMBDA e : e.call \in CandidateCalls /\ e.idx = k)
    IN [i \in 1..Len(s) |-> s[i].call]

IsPrefix(s, t) == Len(s) <= Len(t) /\ \A i \in 1..Len(s) : s[i] = t[i]

\* Probe, create, re-probe, update -- or probe, update: each at most once.
OneAttempt(k) ==
    \/ IsPrefix(CallsFor(k), <<"appDescribe", "appNew", "appDescribe", "appUpdate">>)
    \/ IsPrefix(CallsFor(k), <<"appDescribe", "appUpdate">>)

\* The candidates are visited in the order of the list.
InListOrder ==
    /\ \A i, j \in LogIdx : i < j => log[i].idx <= log[j].idx
    /\ \A i \in LogIdx :
          log[i].call \in CandidateCalls => log[i].arg = loc.try_versions[log[i].idx]

\* Every candidate of the list was probed.
EveryCandidateTried ==
    \A k \in 1..Len(loc.try_versions) :
        \E i \in LogIdx : log[i].call = "appDescribe" /\ log[i].idx = k

\* The id was given by a successful appNew or appUpdate of this invocation.
OwnId(id) ==
    \E i \in LogIdx :
        /\ log[i].call \in {"appNew", "appUpdate"}
        /\ log[i].resp.ok
        /\ log[i].resp.val = id

\* No version is created twice and none is updated twice, even when the
\* list names it twice.
NoVersionTwice ==
    \A i, j \in LogIdx :
        (/\ i # j
         /\ log[i].call \in {"appNew", "appUpdate"}
         /\ log[i].call = log[j].call) => log[i].arg # log[j].arg

RaceSafe ==
    RaceOnly =>
        /\ InListOrder
        /\ \A k \in 1..Len(loc.try_versions) : OneAttempt(k)
        /\ NoVersionTwice
        /\ outcome.exc \notin {"DXAPIError", "TransportError"}
        /\ pc = "done" =>
            \/ outcome.kind = "returned" /\ OwnId(outcome.val)
            \/ /\ outcome.kind = "raised"
               /\ outcome.exc = "EnvironmentError"
               /\ outcome.msg = ExhaustionMessage(loc.try_versions)
               /\ EveryCandidateTried

\* C12: create_app tolerates the race with other publishers.  While they
\* create or publish any version between any two of its calls, and every
\* remote call is answered as the state of the platform dictates,
\* create_app visits the candidates in list order, makes for each candidate
\* at most one probe, one appNew, one re-probe and one appUpdate, raises no
\* remote API error, and ends only by returning an id that one of its own
\* successful appNew or appUpdate calls gave or by raising the exhaustion
\* error after probing every candidate; and every invocation does end.
C12_RaceTolerated == []RaceSafe /\ (RunsApp ~> (pc = "done"))

\* Both races in one run: the first candidate was created by another
\* publisher after the probe (alias collision on appNew) and published
\* after the re-probe (InvalidState on appUpdate); create_app went on to
\* the second candidate and returned the id its own call gave.
C12_Witness ==
    /\ RaceOnly
    /\ pc = "done"
    /\ outcome.kind = "returned"
    /\ CallsFor(1) = <<"appDescribe", "appNew", "appDescribe", "appUpdate">>
    /\ \E i, j \in LogIdx :
        /\ log[i].call = "appNew" /\ log[i].idx = 1 /\ log[i].resp.err = AliasCollision
        /\ log[j].call = "appUpdate" /\ log[j].idx = 1 /\ log[j].resp.err = InvalidState
    /\ \E i \in LogIdx :
        /\ log[i].call \in {"appNew", "appUpdate"}
        /\ log[i].idx = 2
        /\ log[i].resp.ok
        /\ log[i].resp.val = outcome.val

(***************************************************************************)
(* create_app with try_update unset.                                       *)
(***************************************************************************)

NoUpdate == RunsApp /\ ~args.try_update

\* C13: with try_update=False create_app never calls appUpdate.  A
\* candidate whose initial probe finds it existing and unpublished is
\* exhausted at once, and so is a candidate whose appNew met the alias
\* collision, once the re-probe has answered (published or not): the next
\* candidate is probed, or the exhaustion error is raised after the last.
\* An id that create_app holds or returns was given by a successful appNew.
\* When every probe finds its candidate existing, and no call fails for
\* another reason, create_app ends with the exhaustion error, having probed
\* every candidate and called appNew for none.
C13_NeverUpdates ==
    NoUpdate =>
        /\ ~Issued("appUpdate")
        /\ pc # "update"
        /\ \A i \in LogIdx :
              (IsInitialProbe(i) /\ log[i].resp.ok) =>
                  /\ Exhausted(i, log[i].idx)
                  /\ \A j \in LogIdx :
                        log[j].idx = log[i].idx => log[j].call = "appDescribe" /\ j = i
        /\ \A i \in LogIdx :
              (/\ log[i].call = "appNew"
               /\ log[i].resp.err = AliasCollision
               /\ i < Len(log)
               /\ log[i + 1].resp.ok) => Exhausted(i + 1, log[i].idx)
        /\ loc.app_id # "none" =>
              \E i \in LogIdx :
                  /\ log[i].call = "appNew"
                  /\ log[i].resp.ok
                  /\ log[i].resp.val = loc.app_id
        /\ outcome.kind = "returned" => outcome.val = loc.app_id /\ loc.app_id # "none"
        /\ (/\ pc = "done"
            /\ ~faulted
            /\ \A i \in LogIdx : IsInitialProbe(i) => log[i].resp.ok) =>
              /\ outcome.kind = "raised"
              /\ outcome.exc = "EnvironmentError"
              /\ outcome.msg = ExhaustionMessage(loc.try_versions)
              /\ EveryCandidateTried
              /\ ~Issued("appNew")

\* With try_update unset, the first candidate was found unpublished by its
\* probe and the second was found through the alias collision of appNew and
\* an unpublished re-probe; both were given up and create_app ended with the
\* exhaustion error.
C13_Witness ==
    /\ NoUpdate
    /\ pc = "done"
    /\ outcome.exc = "EnvironmentError"
    /\ Len(log) = 5
    /\ FoundUnpublished(log[2].resp) /\ log[2].idx = 1
    /\ FoundNothing(log[3].resp) /\ log[3].idx = 2
    /\ log[4].call = "appNew" /\ log[4].resp.err = AliasCollision
    /\ FoundUnpublished(log[5].resp) /\ log[5].idx = 2
====
